---- MODULE Spec2Model ----
(***************************************************************************)
(* Model of the quant-analyzer screening core:                             *)
(*   src/src/domain/service/screening_service.py (QuantScreeningService)   *)
(*   src/src/main.py (composition root)                                    *)
(*                                                                         *)
(* Numbers.  The program computes on IEEE float64 (pandas/numpy).  The     *)
(* model keeps the three-way shape of a float that the code relies on      *)
(* (number / +-infinity / NaN) and represents a number as an exact         *)
(* fraction n/d in lowest terms.  Cells of the metric tables are integers  *)
(* or NaN (blank spreadsheet cell), thresholds are small fractions.        *)
(***************************************************************************)
EXTENDS Integers, Sequences, FiniteSets, TLC

VARIABLES
    pc,                 \* position of main()/QuantScreeningService.__init__
    financial_data,     \* self.financial_data
    active_strategies,  \* self.active_strategies (dict, insertion ordered)
    load_calls,         \* calls made to the two outbound collaborators
    load_failed,        \* a collaborator call raised during construction
    returned,           \* mappings returned by run_all_active_strategies, oldest first
    tie_order,          \* order the build's argsort(kind="quicksort") leaves equal keys in
    base_values,        \* argument `base` of _safe_growth_rate
    target_values,      \* argument `target` of _safe_growth_rate
    growth_rate,        \* value returned by _safe_growth_rate
    strategy_files      \* the *.toml files of the active folder, in glob order

vars == <<pc, financial_data, active_strategies, load_calls, load_failed,
          returned, tie_order, base_values, target_values, growth_rate,
          strategy_files>>

----------------------------------------------------------------------------
(* Bounds *)

MaxRuns == 2        \* calls of run_all_active_strategies explored
MaxCriteria == 2    \* criteria in a loaded batch
SeriesLen == 2      \* stocks in the series given to the growth calculator alone

----------------------------------------------------------------------------
(* float64 values: NaN, +-infinity, or a number n/d (d > 0, lowest terms) *)

NaN == [k |-> "nan", n |-> 0, d |-> 1]
PosInf == [k |-> "inf", n |-> 1, d |-> 1]
NegInf == [k |-> "inf", n |-> -1, d |-> 1]

Abs(x) == IF x < 0 THEN -x ELSE x

RECURSIVE GCD(_, _)
GCD(a, b) == IF b = 0 THEN a ELSE GCD(b, a % b)

\* the number n/d, d # 0
Q(n, d) ==
    LET s == IF d < 0 THEN -1 ELSE 1
        g == GCD(Abs(n), Abs(d))
    IN  [k |-> "num", n |-> (s * n) \div g, d |-> (s * d) \div g]

I(n) == Q(n, 1)

\* x > 0, x <= 0 as numpy compares: every comparison with NaN is False
FGt0(x) == x.k # "nan" /\ x.n > 0
FLe0(x) == x.k # "nan" /\ x.n <= 0

\* a >= b
FGe(a, b) ==
    CASE a.k = "nan" \/ b.k = "nan" -> FALSE
      [] a.k = "inf" -> a.n > 0 \/ (b.k = "inf" /\ b.n < 0)
      [] b.k = "inf" -> b.n < 0
      [] OTHER -> a.n * b.d >= b.n * a.d

FLe(a, b) == FGe(b, a)
FGt(a, b) == FGe(a, b) /\ ~FGe(b, a)
FLt(a, b) == FGt(b, a)

\* a / b on two cells (numbers or NaN); division by zero gives +-inf or NaN
FDiv(a, b) ==
    CASE a.k = "nan" \/ b.k = "nan" -> NaN
      [] a.k = "inf" \/ b.k = "inf" -> NaN
      [] b.n = 0 -> IF a.n > 0 THEN PosInf ELSE IF a.n < 0 THEN NegInf ELSE NaN
      [] OTHER -> Q(a.n * b.d, a.d * b.n)

\* x - 1
FSubOne(x) == IF x.k = "num" THEN Q(x.n - x.d, x.d) ELSE x

\* x * 100
FMul100(x) == IF x.k = "num" THEN Q(x.n * 100, x.d) ELSE x

\* n/d rounded to the nearest integer, halves to even (numpy rint), d > 0
RoundHalfEven(n, d) ==
    LET q == n \div d
        r == n % d
    IN  IF 2 * r < d THEN q
        ELSE IF 2 * r > d THEN q + 1
        ELSE IF q % 2 = 0 THEN q ELSE q + 1

\* Series.round(2)
FRound2(x) == IF x.k = "num" THEN Q(RoundHalfEven(x.n * 100, x.d), 100) ELSE x

----------------------------------------------------------------------------
(* _safe_growth_rate, element by element *)

\* variant: second condition written base < 0
SafeGrowth_StrictBase(base, target) ==
    LET growth == FSubOne(FDiv(target, base))
    IN  IF FGt0(base) THEN growth
        ELSE IF base.k # "nan" /\ base.n < 0 /\ FGt0(target) THEN PosInf
        ELSE NaN

\* variant: default=0 instead of np.nan
SafeGrowth_ZeroDefault(base, target) ==
    LET growth == FSubOne(FDiv(target, base))
    IN  IF FGt0(base) THEN growth
        ELSE IF FLe0(base) /\ FGt0(target) THEN PosInf
        ELSE I(0)

\* variant: growth computed as base / target - 1
SafeGrowth_Swapped(base, target) ==
    LET growth == FSubOne(FDiv(base, target))
    IN  IF FGt0(base) THEN growth
        ELSE IF FLe0(base) /\ FGt0(target) THEN PosInf
        ELSE NaN

\* growth = (target / base) - 1, then
\* np.select(conditions, choices, default=np.nan), for one stock
SafeGrowth(base, target) ==
    LET growth == FSubOne(FDiv(target, base))
    IN  IF FGt0(base) THEN growth
        ELSE IF FLe0(base) /\ FGt0(target) THEN PosInf
        ELSE NaN

\* the Series returned: pd.Series(safe_growth, index=base.index)
SafeGrowthRate(base, target) ==
    [index |-> base.index,
     values |-> [i \in DOMAIN base.values |-> SafeGrowth(base.values[i], target.values[i])]]

----------------------------------------------------------------------------
(* Outcome of a call: a returned value or a raised exception *)

Return(v) == [raised |-> FALSE, error |-> "", value |-> v]
Raise(e) == [raised |-> TRUE, error |-> e, value |-> <<>>]

\* Python None
None == [none |-> TRUE]

\* pd.DataFrame(): no columns, no rows
EmptyDataFrame == [metric |-> "", rows |-> <<>>]

----------------------------------------------------------------------------
(* Criteria and the metric tables *)

\* QoQCriteria.type
QoQ_Growth == "QoQ_Growth"

\* keys of self._metric_map: operating profit, sales, net income
MetricNames == {"OperatingProfit", "Sales", "NetIncome"}

\* self._metric_map, built in __init__ from the loaded bundle
MetricMap(fd) ==
    [m \in MetricNames |->
        CASE m = "OperatingProfit" -> fd.operating_profit
          [] m = "Sales" -> fd.sales
          [] m = "NetIncome" -> fd.net_income]

\* self._execution_map: the registered kinds
ExecutionMapKeys == {QoQ_Growth}

\* self._metric_map.get(metric)
GetMetricDataframe(fd, metric) ==
    IF metric \in DOMAIN MetricMap(fd) THEN MetricMap(fd)[metric] ELSE None

\* df[quarter], KeyError when the column is absent
GetQuarterlyData(df, quarter) ==
    IF quarter \notin df.columns
    THEN Raise("KeyError")
    ELSE Return([index |-> df.index, values |-> df.data[quarter]])

----------------------------------------------------------------------------
(* _build_qoq_result_dataframe *)

\* variant: mask written ~(rate < min_growth)
PassedMask_NotBelow(rate, min_growth) == ~FLt(rate, min_growth)

\* variant: mask written rate <= min_growth
PassedMask_AtMost(rate, min_growth) == FLe(rate, min_growth)

\* rate >= min_growth for one stock (NaN compares False)
PassedMask(rate, min_growth) == FGe(rate, min_growth)

\* variant: the rate rounded without the conversion to a percentage
GrowthRatePct_NoPercent(rate) == FRound2(rate)

\* (rate[passed_mask] * 100).round(2) for one stock
GrowthRatePct(rate) == FRound2(FMul100(rate))

\* the rows of pd.DataFrame({...}) built from the masked series, in index order
RECURSIVE PassedRows(_, _, _, _, _)
PassedRows(base, target, rate, min_growth, i) ==
    IF i > Len(rate.values) THEN << >>
    ELSE LET rest == PassedRows(base, target, rate, min_growth, i + 1)
         IN  IF PassedMask(rate.values[i], min_growth)
             THEN << [stock |-> rate.index[i],
                      base |-> base.values[i],
                      target |-> target.values[i],
                      growth_pct |-> GrowthRatePct(rate.values[i])] >> \o rest
             ELSE rest

Reverse(s) == [i \in 1..Len(s) |-> s[Len(s) + 1 - i]]

\* one insertion of the ascending argsort.  kind="quicksort" is not a stable
\* sort: a build either keeps equal keys in their incoming order ("stable",
\* numpy's insertion sort on short arrays) or not ("unstable").
RECURSIVE InsertAsc(_, _, _)
InsertAsc(sorted, row, tie) ==
    IF sorted = << >> THEN << row >>
    ELSE LET before == IF tie = "stable"
                       THEN FLe(Head(sorted).growth_pct, row.growth_pct)
                       ELSE FLt(Head(sorted).growth_pct, row.growth_pct)
         IN  IF before
             THEN << Head(sorted) >> \o InsertAsc(Tail(sorted), row, tie)
             ELSE << row >> \o sorted

RECURSIVE ArgsortAsc(_, _)
ArgsortAsc(rows, tie) ==
    IF rows = << >> THEN << >>
    ELSE InsertAsc(ArgsortAsc(SubSeq(rows, 1, Len(rows) - 1), tie), rows[Len(rows)], tie)

\* variant: ascending=True
SortValues_Ascending(rows, tie) == ArgsortAsc(rows, tie)

\* result_df.sort_values(by="Growth_Rate(%)", ascending=False, inplace=True):
\* pandas reverses the keys, argsorts them ascending and reverses the result
SortValues(rows, tie) == Reverse(ArgsortAsc(Reverse(rows), tie))

\* comparing a float Series with a non-number raises TypeError
BuildQoqResultDataframe(base, target, rate, min_growth, metric_name, tie) ==
    IF min_growth.k = "str" /\ Len(rate.values) > 0
    THEN Raise("TypeError")
    ELSE Return([metric |-> metric_name,
                 rows |-> SortValues(PassedRows(base, target, rate, min_growth, 1), tie)])

----------------------------------------------------------------------------
(* evaluation and dispatch *)

\* _execute_qoq_growth: ValueError for an unknown metric, KeyError for a
\* missing column, else the built result
ExecuteQoqGrowth(criteria, fd, tie) ==
    LET df == GetMetricDataframe(fd, criteria.metric)
    IN  IF df = None THEN Raise("ValueError")
        ELSE LET b == GetQuarterlyData(df, criteria.base_quarter)
                 t == GetQuarterlyData(df, criteria.target_quarter)
             IN  IF b.raised THEN b
                 ELSE IF t.raised THEN t
                 ELSE BuildQoqResultDataframe(b.value, t.value,
                          SafeGrowthRate(b.value, t.value),
                          criteria.min_growth_pct, criteria.metric, tie)

\* variant: the dispatch without the try/except of lines 80-84
ExecuteStrategy_NoCatch(name, criteria, fd, tie) ==
    IF criteria.type \notin ExecutionMapKeys
    THEN Return(EmptyDataFrame)
    ELSE ExecuteQoqGrowth(criteria, fd, tie)

\* _execute_strategy: an unregistered kind and any exception of the
\* evaluator both end in an empty DataFrame
ExecuteStrategy(name, criteria, fd, tie) ==
    IF criteria.type \notin ExecutionMapKeys
    THEN Return(EmptyDataFrame)
    ELSE LET r == ExecuteQoqGrowth(criteria, fd, tie)
         IN  IF r.raised THEN Return(EmptyDataFrame) ELSE r

\* results[key] = value on an insertion-ordered dict
RECURSIVE DictSet(_, _, _)
DictSet(dict, key, value) ==
    IF dict = << >> THEN << [name |-> key, result |-> value] >>
    ELSE IF Head(dict).name = key
         THEN << [name |-> key, result |-> value] >> \o Tail(dict)
         ELSE << Head(dict) >> \o DictSet(Tail(dict), key, value)

DictKeys(dict) == {dict[i].name : i \in 1..Len(dict)}

\* variant: an empty result is not stored
RECURSIVE RunLoop_SkipEmpty(_, _, _, _, _)
RunLoop_SkipEmpty(strategies, fd, tie, i, results) ==
    IF i > Len(strategies) THEN Return(results)
    ELSE LET r == ExecuteStrategy(strategies[i].name, strategies[i].criteria, fd, tie)
         IN  IF r.raised THEN r
             ELSE RunLoop_SkipEmpty(strategies, fd, tie, i + 1,
                      IF r.value.rows = << >> THEN results
                      ELSE DictSet(results, strategies[i].name, r.value))

\* the loop of run_all_active_strategies from entry i on, results so far given
RECURSIVE RunLoop(_, _, _, _, _)
RunLoop(strategies, fd, tie, i, results) ==
    IF i > Len(strategies) THEN Return(results)
    ELSE LET r == ExecuteStrategy(strategies[i].name, strategies[i].criteria, fd, tie)
         IN  IF r.raised THEN r
             ELSE RunLoop(strategies, fd, tie, i + 1,
                          DictSet(results, strategies[i].name, r.value))

\* variant: run_all_active_strategies that drops empty results
RunAllActiveStrategies_SkipEmpty(strategies, fd, tie) ==
    RunLoop_SkipEmpty(strategies, fd, tie, 1, << >>)

\* run_all_active_strategies: the mapping returned, or the exception that escapes
RunAllActiveStrategies(strategies, fd, tie) == RunLoop(strategies, fd, tie, 1, << >>)

----------------------------------------------------------------------------
(* Inputs: what the two collaborators may hand to the service *)

\* a min_growth_pct that is not a number (TOML string)
NotANumber == [k |-> "str", n |-> 0, d |-> 1]

Table(index, q1, v1, q2, v2) ==
    [index |-> index, columns |-> {q1, q2},
     data |-> [q \in {q1, q2} |-> IF q = q1 THEN v1 ELSE v2]]

QoQCriteria(metric, base_quarter, target_quarter, min_growth_pct) ==
    [type |-> QoQ_Growth, metric |-> metric, base_quarter |-> base_quarter,
     target_quarter |-> target_quarter, min_growth_pct |-> min_growth_pct]

OperatingProfitTable ==
    Table(<<"A", "B", "C">>, "2023/1Q", <<I(10), I(4), NaN>>,
                             "2023/2Q", <<I(9), I(6), I(1)>>)

NetIncomeTable ==
    Table(<<"A", "D">>, "2023/2Q", <<I(-3), I(2)>>,
                        "2023/3Q", <<I(-1), I(5)>>)

\* bundles load_financial_data may return
Bundles ==
    { [sales |-> Table(<<"A", "B", "C">>, "2023/1Q", <<I(2), I(-5), I(0)>>,
                                          "2023/2Q", <<I(3), I(2), I(0)>>),
       operating_profit |-> OperatingProfitTable,
       net_income |-> NetIncomeTable],
      [sales |-> Table(<<"A", "B", "C">>, "2023/1Q", <<I(2), I(4), I(1)>>,
                                          "2023/2Q", <<I(3), I(6), I(3)>>),
       operating_profit |-> OperatingProfitTable,
       net_income |-> NetIncomeTable] }

\* criteria load_active_strategies may return; the last five fail
CriteriaChoices ==
    { QoQCriteria("Sales", "2023/1Q", "2023/2Q", Q(3, 10)),
      QoQCriteria("OperatingProfit", "2023/1Q", "2023/2Q", I(0)),
      QoQCriteria("NetIncome", "2023/2Q", "2023/3Q", I(-1)),
      QoQCriteria("EBITDA", "2023/1Q", "2023/2Q", I(0)),
      QoQCriteria("Sales", "2022/4Q", "2023/2Q", I(0)),
      QoQCriteria("Sales", "2023/1Q", "2023/3Q", I(0)),
      QoQCriteria("Sales", "2023/1Q", "2023/2Q", NotANumber),
      [QoQCriteria("Sales", "2023/1Q", "2023/2Q", I(0)) EXCEPT !.type = "TTM_Filter"] }

\* strategy names (file names), in the order the loader inserts them
StrategyNames == <<"s1", "s2", "s3", "s4">>

\* dicts of at most MaxCriteria criteria drawn from cs
Batches(cs) ==
    UNION { { [i \in 1..n |-> [name |-> StrategyNames[i], criteria |-> f[i]]] :
              f \in [1..n -> cs] } : n \in 0..MaxCriteria }

----------------------------------------------------------------------------
(* The orchestrator: construction by main(), then runs *)

NoSeries == [index |-> << >>, values |-> << >>]

Init ==
    /\ pc = "init_load_data"
    /\ financial_data = None
    /\ active_strategies = << >>
    /\ load_calls = [data |-> 0, strategies |-> 0]
    /\ load_failed = FALSE
    /\ returned = << >>
    /\ tie_order \in {"stable", "unstable"}
    /\ base_values = NoSeries
    /\ target_values = NoSeries
    /\ growth_rate = NoSeries
    /\ strategy_files = << >>

\* a variant of line 40 that swallows the collaborator's failure
LoadFinancialData_Swallow ==
    /\ pc = "init_load_data"
    /\ load_calls' = [load_calls EXCEPT !.data = @ + 1]
    /\ \/ \E fd \in Bundles : financial_data' = fd /\ UNCHANGED load_failed
       \/ /\ load_failed' = TRUE
          /\ financial_data' = CHOOSE fd \in Bundles : TRUE
    /\ pc' = "init_load_strategies"
    /\ UNCHANGED strategy_files
    /\ UNCHANGED <<active_strategies, returned, tie_order,
                   base_values, target_values, growth_rate>>

\* __init__ line 40: self.data_source.load_financial_data() returns or raises
LoadFinancialData ==
    /\ pc = "init_load_data"
    /\ load_calls' = [load_calls EXCEPT !.data = @ + 1]
    /\ \/ \E fd \in Bundles :
            /\ financial_data' = fd
            /\ pc' = "init_load_strategies"
            /\ UNCHANGED load_failed
       \/ /\ load_failed' = TRUE
          /\ pc' = "init_failed"
          /\ UNCHANGED financial_data
    /\ UNCHANGED strategy_files
    /\ UNCHANGED <<active_strategies, returned, tie_order,
                   base_values, target_values, growth_rate>>

\* __init__ lines 41-51: load_active_strategies() returns or raises; the two
\* lookup tables are then built and the service is handed to main()
LoadActiveStrategies ==
    /\ pc = "init_load_strategies"
    /\ load_calls' = [load_calls EXCEPT !.strategies = @ + 1]
    /\ \/ \E batch \in Batches(CriteriaChoices) :
            /\ active_strategies' = batch
            /\ pc' = "ready"
            /\ UNCHANGED load_failed
       \/ /\ load_failed' = TRUE
          /\ pc' = "init_failed"
          /\ UNCHANGED active_strategies
    /\ UNCHANGED strategy_files
    /\ UNCHANGED <<financial_data, returned, tie_order,
                   base_values, target_values, growth_rate>>

\* a variant that asks the strategy loader again on every run
RunAll_Reload ==
    /\ pc = "ready"
    /\ Len(returned) < MaxRuns
    /\ \E batch \in Batches(CriteriaChoices) :
          /\ active_strategies' = batch
          /\ returned' = Append(returned,
                 RunAllActiveStrategies(batch, financial_data, tie_order).value)
    /\ load_calls' = [load_calls EXCEPT !.strategies = @ + 1]
    /\ UNCHANGED strategy_files
    /\ UNCHANGED <<pc, financial_data, load_failed, tie_order,
                   base_values, target_values, growth_rate>>

\* a variant whose builder sorts the bundle's own table instead of a copy
RunAll_SortsBundle ==
    /\ pc = "ready"
    /\ Len(returned) < MaxRuns
    /\ LET out == RunAllActiveStrategies(active_strategies, financial_data, tie_order)
       IN  pc' = pc /\ returned' = Append(returned, out.value)
    /\ financial_data' =
          [financial_data EXCEPT
              !.sales.index = Reverse(@),
              !.sales.data = [q \in DOMAIN @ |-> Reverse(@[q])]]
    /\ UNCHANGED strategy_files
    /\ UNCHANGED <<active_strategies, load_calls, load_failed,
                   tie_order, base_values, target_values, growth_rate>>

\* one call of run_all_active_strategies on the constructed service
RunAll ==
    /\ pc = "ready"
    /\ Len(returned) < MaxRuns
    /\ LET out == RunAllActiveStrategies(active_strategies, financial_data, tie_order)
       IN  IF out.raised
           THEN pc' = "crashed" /\ UNCHANGED returned
           ELSE pc' = pc /\ returned' = Append(returned, out.value)
    /\ UNCHANGED strategy_files
    /\ UNCHANGED <<financial_data, active_strategies, load_calls, load_failed,
                   tie_order, base_values, target_values, growth_rate>>

Next == LoadFinancialData \/ LoadActiveStrategies \/ RunAll

Spec == Init /\ [][Next]_vars

----------------------------------------------------------------------------
(* The growth calculator on its own: _safe_growth_rate over two series *)

StockNames == <<"A", "B", "C", "D", "E">>

\* cells of a metric table: a blank cell or a figure
CellValues == {NaN} \cup {I(n) : n \in {-2, 0, 1, 2, 3}}

SeriesChoices ==
    { [index |-> SubSeq(StockNames, 1, SeriesLen), values |-> v] :
      v \in [1..SeriesLen -> CellValues] }

InitGrowth ==
    /\ pc = "growth_call"
    /\ financial_data = None
    /\ active_strategies = << >>
    /\ load_calls = [data |-> 0, strategies |-> 0]
    /\ load_failed = FALSE
    /\ returned = << >>
    /\ tie_order = "stable"
    /\ base_values \in SeriesChoices
    /\ target_values \in SeriesChoices
    /\ growth_rate = NoSeries
    /\ strategy_files = << >>

\* growth_rate = self._safe_growth_rate(base_values, target_values)
SafeGrowthRateCall ==
    /\ pc = "growth_call"
    /\ growth_rate' = SafeGrowthRate(base_values, target_values)
    /\ pc' = "growth_done"
    /\ UNCHANGED strategy_files
    /\ UNCHANGED <<financial_data, active_strategies, load_calls, load_failed,
                   returned, tie_order, base_values, target_values>>

NextGrowth == SafeGrowthRateCall

SpecGrowth == InitGrowth /\ [][NextGrowth]_vars

----------------------------------------------------------------------------
(* A Ready service over every small sales table, with two QoQ criteria     *)
(* that differ only in their threshold                                     *)

NumStocks == 3      \* stocks in the sales table

\* (base, target) of one stock: growth 2, 1/2, 1/2, -1/2, +inf, NaN, NaN
RowChoices ==
    { <<I(1), I(3)>>, <<I(2), I(3)>>, <<I(4), I(6)>>, <<I(2), I(1)>>,
      <<I(-1), I(1)>>, <<I(0), I(0)>>, <<NaN, I(2)>> }

Thresholds == {I(-1), I(0), Q(1, 2), I(1)}

EvalBundles ==
    { [sales |-> Table(SubSeq(StockNames, 1, NumStocks),
                       "2023/1Q", [i \in 1..NumStocks |-> r[i][1]],
                       "2023/2Q", [i \in 1..NumStocks |-> r[i][2]]),
       operating_profit |-> OperatingProfitTable,
       net_income |-> NetIncomeTable] : r \in [1..NumStocks -> RowChoices] }

EvalBatches ==
    { << [name |-> "s1", criteria |-> QoQCriteria("Sales", "2023/1Q", "2023/2Q", t1)],
         [name |-> "s2", criteria |-> QoQCriteria("Sales", "2023/1Q", "2023/2Q", t2)] >> :
      t1 \in Thresholds, t2 \in Thresholds }

InitEval ==
    /\ pc = "ready"
    /\ financial_data \in EvalBundles
    /\ active_strategies \in EvalBatches
    /\ load_calls = [data |-> 1, strategies |-> 1]
    /\ load_failed = FALSE
    /\ returned = << >>
    /\ tie_order \in {"stable", "unstable"}
    /\ base_values = NoSeries
    /\ target_values = NoSeries
    /\ growth_rate = NoSeries
    /\ strategy_files = << >>

NextEval == RunAll

SpecEval == InitEval /\ [][NextEval]_vars

----------------------------------------------------------------------------
(* Properties of the growth calculator (SpecGrowth) *)

GrowthDone == pc = "growth_done"

Positive(x) == x.k = "num" /\ x.n > 0
NonPositive(x) == x.k = "num" /\ x.n <= 0
Missing(x) == x.k = "nan"

\* C3: a stock whose base is <= 0 and whose target is > 0 gets growth
\* +infinity.
C3_LossToProfitIsInfinity ==
    GrowthDone =>
        \A i \in 1..Len(base_values.values) :
            (NonPositive(base_values.values[i]) /\ Positive(target_values.values[i]))
                => growth_rate.values[i] = PosInf

C3_Witness ==
    /\ GrowthDone
    /\ base_values.values[1] = I(0) /\ target_values.values[1] = I(2)
    /\ base_values.values[2] = I(-2) /\ target_values.values[2] = I(1)
    /\ growth_rate.values[1] = PosInf /\ growth_rate.values[2] = PosInf

\* C4: a stock whose base is missing, or whose target is missing, or whose
\* base and target are both <= 0, gets the undefined growth (NaN): not a
\* number, not infinity.
C4_UndefinedGrowth ==
    GrowthDone =>
        \A i \in 1..Len(base_values.values) :
            (\/ Missing(base_values.values[i])
             \/ Missing(target_values.values[i])
             \/ (NonPositive(base_values.values[i]) /\ NonPositive(target_values.values[i])))
                => growth_rate.values[i].k = "nan"

C4_Witness ==
    /\ GrowthDone
    /\ Positive(base_values.values[1]) /\ Missing(target_values.values[1])
    /\ base_values.values[2] = I(-2) /\ target_values.values[2] = I(0)
    /\ growth_rate.values[1].k = "nan" /\ growth_rate.values[2].k = "nan"

\* C5: a stock whose base is > 0 and whose target is present (of any sign)
\* gets the number target / base - 1.
C5_PositiveBaseRatio ==
    GrowthDone =>
        \A i \in 1..Len(base_values.values) :
            (Positive(base_values.values[i]) /\ ~Missing(target_values.values[i]))
                => /\ growth_rate.values[i].k = "num"
                   /\ growth_rate.values[i].n * base_values.values[i].n
                      = (target_values.values[i].n - base_values.values[i].n)
                        * growth_rate.values[i].d

C5_Witness ==
    /\ GrowthDone
    /\ base_values.values[1] = I(2) /\ target_values.values[1] = I(-2)
    /\ growth_rate.values[1] = I(-2)
    /\ base_values.values[2] = I(2) /\ target_values.values[2] = I(3)
    /\ growth_rate.values[2] = Q(1, 2)

----------------------------------------------------------------------------
(* Properties of the result builder (SpecEval) *)

StocksOf(result) == {result.rows[j].stock : j \in 1..Len(result.rows)}

\* the stocks of the criterion's metric table whose growth is defined and
\* at least the threshold
DefinedAndAtLeast(criteria, fd) ==
    LET df == MetricMap(fd)[criteria.metric]
        t == criteria.min_growth_pct
        g(j) == SafeGrowth(df.data[criteria.base_quarter][j],
                           df.data[criteria.target_quarter][j])
    IN  { df.index[j] : j \in { j \in 1..Len(df.index) :
            \/ g(j) = PosInf
            \/ (g(j).k = "num" /\ g(j).n * t.d >= t.n * g(j).d) } }

\* the stocks of the criterion's metric table with the given kind of growth
StocksWithGrowth(criteria, fd, kind) ==
    LET df == MetricMap(fd)[criteria.metric]
    IN  { df.index[j] : j \in { j \in 1..Len(df.index) :
            SafeGrowth(df.data[criteria.base_quarter][j],
                       df.data[criteria.target_quarter][j]).k = kind } }

\* C6: the stocks of a criterion's result are exactly the stocks of its
\* metric table whose growth is defined and >= the threshold, one row each;
\* +infinity growth always passes, undefined growth never does.
C6_ResultIsExactlyPassingStocks ==
    \A r \in 1..Len(returned) : \A i \in 1..Len(active_strategies) :
        LET c == active_strategies[i].criteria
            res == returned[r][i].result
        IN  /\ StocksOf(res) = DefinedAndAtLeast(c, financial_data)
            /\ Len(res.rows) = Cardinality(StocksOf(res))
            /\ StocksWithGrowth(c, financial_data, "inf") \subseteq StocksOf(res)
            /\ StocksWithGrowth(c, financial_data, "nan") \cap StocksOf(res) = {}

C6_Witness ==
    /\ Len(returned) > 0
    /\ active_strategies[1].criteria.min_growth_pct = I(-1)
    /\ financial_data.sales.data["2023/1Q"] = <<I(0), I(-1), I(2)>>
    /\ financial_data.sales.data["2023/2Q"] = <<I(0), I(1), I(1)>>
    /\ StocksOf(returned[1][1].result) = {"B", "C"}

\* a >= b on growth percentages: +infinity, or two exact fractions
PctAtLeast(a, b) ==
    \/ a = PosInf
    \/ (a.k = "num" /\ b.k = "num" /\ a.n * b.d >= b.n * a.d)

\* C7: the rows of every result are in non-increasing order of growth
\* percentage (+infinity rows first), and every run returns the rows of a
\* criterion in the same order, ties included.
C7_RowsDescendingAndRepeatable ==
    /\ \A r \in 1..Len(returned) : \A i \in 1..Len(returned[r]) :
          LET rows == returned[r][i].result.rows
          IN  \A j \in 1..Len(rows) : \A k \in 1..Len(rows) :
                 j < k => PctAtLeast(rows[j].growth_pct, rows[k].growth_pct)
    /\ \A r1 \in 1..Len(returned) : \A r2 \in 1..Len(returned) :
          \A i \in 1..Len(returned[r1]) :
             returned[r1][i].result.rows = returned[r2][i].result.rows

C7_Witness ==
    /\ Len(returned) >= 2
    /\ financial_data.sales.data["2023/1Q"] = <<I(2), I(4), I(-1)>>
    /\ financial_data.sales.data["2023/2Q"] = <<I(3), I(6), I(1)>>
    /\ Len(returned[2][1].result.rows) = 3
    /\ returned[2][1].result.rows[1].stock = "C"
    /\ returned[2][1].result.rows[1].growth_pct = PosInf
    /\ returned[2][1].result.rows[2].growth_pct = returned[2][1].result.rows[3].growth_pct

\* C8: of two QoQ criteria that differ only in their threshold, the one with
\* the higher threshold passes a subset of the stocks of the other.
C8_ThresholdMonotone ==
    \A r \in 1..Len(returned) :
        \A i \in 1..Len(active_strategies) : \A j \in 1..Len(active_strategies) :
            LET ci == active_strategies[i].criteria
                cj == active_strategies[j].criteria
            IN  (/\ ci.type = QoQ_Growth /\ cj.type = QoQ_Growth
                 /\ [ci EXCEPT !.min_growth_pct = cj.min_growth_pct] = cj
                 /\ ci.min_growth_pct.n * cj.min_growth_pct.d
                    <= cj.min_growth_pct.n * ci.min_growth_pct.d)
                => StocksOf(returned[r][j].result) \subseteq StocksOf(returned[r][i].result)

C8_Witness ==
    /\ Len(returned) > 0
    /\ active_strategies[1].criteria.min_growth_pct = I(0)
    /\ active_strategies[2].criteria.min_growth_pct = I(1)
    /\ StocksOf(returned[1][2].result) # {}
    /\ StocksOf(returned[1][2].result) # StocksOf(returned[1][1].result)
    /\ StocksOf(returned[1][2].result) \subseteq StocksOf(returned[1][1].result)

----------------------------------------------------------------------------
(* Properties of dispatch and of the orchestrator (Spec) *)

\* the criterion cannot be evaluated against the bundle: unregistered kind,
\* unknown metric, a period that is no column of the metric's table, or a
\* threshold that is not a number
Fails(criteria, fd) ==
    \/ criteria.type # "QoQ_Growth"
    \/ criteria.metric \notin {"OperatingProfit", "Sales", "NetIncome"}
    \/ LET df == CASE criteria.metric = "OperatingProfit" -> fd.operating_profit
                   [] criteria.metric = "Sales" -> fd.sales
                   [] criteria.metric = "NetIncome" -> fd.net_income
       IN  \/ criteria.base_quarter \notin df.columns
           \/ criteria.target_quarter \notin df.columns
    \/ criteria.min_growth_pct.k = "str"

HasKey(dict, key) == \E i \in 1..Len(dict) : dict[i].name = key
Lookup(dict, key) == dict[CHOOSE i \in 1..Len(dict) : dict[i].name = key].result

\* the result of the criterion when it is the only loaded one
Alone(entry) ==
    RunAllActiveStrategies(<< entry >>, financial_data, tie_order).value[1].result

\* C1: a run never raises, and in the mapping it returns every criterion
\* that does not fail has the result it has when evaluated alone against the
\* same bundle, wherever the failing criteria stand in the batch.
C1_FailuresAreIsolated ==
    /\ pc # "crashed"
    /\ \A r \in 1..Len(returned) : \A i \in 1..Len(active_strategies) :
          ~Fails(active_strategies[i].criteria, financial_data)
              => /\ HasKey(returned[r], active_strategies[i].name)
                 /\ Lookup(returned[r], active_strategies[i].name)
                    = Alone(active_strategies[i])

C1_Witness ==
    /\ Len(returned) > 0
    /\ Len(active_strategies) = 2
    /\ active_strategies[1].criteria.target_quarter = "2023/3Q"
    /\ Fails(active_strategies[1].criteria, financial_data)
    /\ ~Fails(active_strategies[2].criteria, financial_data)
    /\ Lookup(returned[1], "s1").rows = << >>
    /\ Len(Lookup(returned[1], "s2").rows) = 2

\* C2: the returned mapping has exactly the loaded names as keys, and every
\* failing criterion is in it with an empty result.
C2_FailedCriteriaPresentAndEmpty ==
    /\ pc # "crashed"
    /\ \A r \in 1..Len(returned) :
          /\ DictKeys(returned[r]) = DictKeys(active_strategies)
          /\ Len(returned[r]) = Len(active_strategies)
          /\ \A i \in 1..Len(active_strategies) :
                Fails(active_strategies[i].criteria, financial_data)
                    => Lookup(returned[r], active_strategies[i].name).rows = << >>

C2_Witness ==
    /\ Len(returned) > 0
    /\ Len(active_strategies) = 2
    /\ active_strategies[1].criteria.type = "TTM_Filter"
    /\ active_strategies[2].criteria.metric = "EBITDA"
    /\ DictKeys(returned[1]) = {"s1", "s2"}
    /\ returned[1][1].result.rows = << >>
    /\ returned[1][2].result.rows = << >>

\* C9: every call on the Ready service returns the same mapping, and no call
\* after construction asks either collaborator again.
C9_RunsAreIdempotent ==
    /\ \A r1 \in 1..Len(returned) : \A r2 \in 1..Len(returned) :
          returned[r1] = returned[r2]
    /\ pc = "ready" => load_calls = [data |-> 1, strategies |-> 1]

C9_Witness ==
    /\ Len(returned) >= 2
    /\ Len(active_strategies) = 2
    /\ Fails(active_strategies[1].criteria, financial_data)
    /\ Len(returned[1][2].result.rows) = 3
    /\ returned[2] = returned[1]

\* C10: once a collaborator call has failed the service is never Ready and
\* nothing is ever returned; Ready is entered only with both loads done, once
\* each, and is entered once.
C10_Inv ==
    /\ load_failed => (pc = "init_failed" /\ returned = << >>)
    /\ pc = "ready" => (/\ ~load_failed
                        /\ load_calls = [data |-> 1, strategies |-> 1]
                        /\ financial_data \in Bundles)
    /\ returned # << >> => pc = "ready"

C10_Step ==
    /\ pc = "init_failed" => pc' = "init_failed"
    /\ (pc # "ready" /\ pc' = "ready") => pc = "init_load_strategies"
    /\ pc = "ready" => pc' = "ready"
    /\ pc' = "init_load_strategies" => pc = "init_load_data"

C10_FailedLoadNeverReady == [](C10_Inv) /\ [][C10_Step]_vars

C10_Witness ==
    /\ pc = "init_failed"
    /\ load_failed
    /\ load_calls = [data |-> 1, strategies |-> 1]
    /\ financial_data \in Bundles
    /\ returned = << >>

----------------------------------------------------------------------------
(* Frame of the runs (Spec) *)

\* C11: once the service is Ready no step changes the Financial Data Bundle
\* or the criteria collection, whether the evaluated criteria succeed or fail.
C11_Step ==
    pc = "ready" => /\ financial_data' = financial_data
                    /\ active_strategies' = active_strategies

C11_BundleAndCriteriaReadOnly == [][C11_Step]_vars

C11_Witness ==
    /\ pc = "ready"
    /\ Len(returned) >= 1
    /\ Len(active_strategies) = 2
    /\ active_strategies[1].criteria.metric = "OperatingProfit"
    /\ Len(returned[1][1].result.rows) = 1
    /\ returned[1][1].result.rows[1].stock = "B"
    /\ active_strategies[2].criteria.base_quarter = "2022/4Q"
    /\ returned[1][2].result.rows = << >>

----------------------------------------------------------------------------
(* The strategy loader: TomlStrategyLoader.load_active_strategies          *)
(*                                                                         *)
(* A file name is a sequence of pieces; the piece ".toml" stands for that  *)
(* substring, every other piece is text that does not contain it.          *)
(* A TOML table is a function from its keys to their values.               *)

MaxFiles == 2       \* files in the active folder

TomlExt == ".toml"

\* names glob("*.toml") can return: a.toml, b.toml, a.toml.toml
FileNames ==
    { <<"a", TomlExt>>, <<"b", TomlExt>>, <<"a", TomlExt, TomlExt>> }

CriteriaTable(type, metric, base_quarter, target_quarter, min_growth_pct) ==
    [key \in {"type", "metric", "base_quarter", "target_quarter", "min_growth_pct"} |->
        CASE key = "type" -> type
          [] key = "metric" -> metric
          [] key = "base_quarter" -> base_quarter
          [] key = "target_quarter" -> target_quarter
          [] key = "min_growth_pct" -> min_growth_pct]

\* the table with one key removed
Without(table, key) == [k \in DOMAIN table \ {key} |-> table[k]]

EmptyTable == [k \in {} |-> 0]

ValidCriteriaTable == CriteriaTable("QoQ_Growth", "Sales", "2023/1Q", "2023/2Q", Q(1, 2))

\* what a strategy file may hold: two well-formed strategies, a file that
\* cannot be opened or is not TOML, no criteria section, an empty criteria
\* section, an unknown criteria type, a missing field
FileContents ==
    { [readable |-> TRUE, config |-> [k \in {"criteria"} |-> ValidCriteriaTable]],
      [readable |-> TRUE, config |-> [k \in {"criteria"} |->
          CriteriaTable("QoQ_Growth", "NetIncome", "2023/2Q", "2023/3Q", I(0))]],
      [readable |-> FALSE, config |-> EmptyTable],
      [readable |-> TRUE, config |-> [k \in {"strategy"} |-> EmptyTable]],
      [readable |-> TRUE, config |-> [k \in {"criteria"} |-> EmptyTable]],
      [readable |-> TRUE, config |-> [k \in {"criteria"} |->
          [ValidCriteriaTable EXCEPT !["type"] = "TTM_Filter"]]],
      [readable |-> TRUE, config |-> [k \in {"criteria"} |->
          Without(ValidCriteriaTable, "base_quarter")]] }

\* folders: at most MaxFiles files of different names, in any glob order
Folders ==
    UNION { { [i \in 1..n |-> [path |-> names[i], content |-> contents[i]]] :
              names \in { f \in [1..n -> FileNames] :
                            \A i \in 1..n : \A j \in 1..n : f[i] = f[j] => i = j },
              contents \in [1..n -> FileContents] } : n \in 0..MaxFiles }

\* str.replace(old, ""): every occurrence of the piece is removed
RECURSIVE StrReplace(_, _)
StrReplace(name, old) ==
    IF name = << >> THEN << >>
    ELSE IF Head(name) = old THEN StrReplace(Tail(name), old)
    ELSE << Head(name) >> \o StrReplace(Tail(name), old)

\* os.path.basename(file_path).replace('.toml', '')
StrategyName(path) == StrReplace(path, TomlExt)

\* _parse_criteria_config
ParseCriteriaConfig(config) ==
    IF "criteria" \notin DOMAIN config \/ DOMAIN config["criteria"] = {}
    THEN Raise("ValueError")
    ELSE LET criteria_data == config["criteria"]
         IN  IF "type" \in DOMAIN criteria_data /\ criteria_data["type"] = "QoQ_Growth"
             THEN IF {"metric", "base_quarter", "target_quarter", "min_growth_pct"}
                        \subseteq DOMAIN criteria_data
                  THEN Return(QoQCriteria(criteria_data["metric"],
                                          criteria_data["base_quarter"],
                                          criteria_data["target_quarter"],
                                          criteria_data["min_growth_pct"]))
                  ELSE Raise("KeyError")
             ELSE Raise("ValueError")

\* the body of the try of one file: open + tomllib.load, parse
LoadOne(file) ==
    IF ~file.content.readable THEN Raise("OSError")
    ELSE ParseCriteriaConfig(file.content.config)

\* the loop over glob.glob(search_path) from file i on
RECURSIVE LoadLoop(_, _, _)
LoadLoop(files, i, strategies) ==
    IF i > Len(files) THEN strategies
    ELSE LET r == LoadOne(files[i])
         IN  LoadLoop(files, i + 1,
                      IF r.raised THEN strategies
                      ELSE DictSet(strategies, StrategyName(files[i].path), r.value))

InitLoader ==
    /\ pc = "loader_call"
    /\ financial_data = None
    /\ active_strategies = << >>
    /\ load_calls = [data |-> 0, strategies |-> 0]
    /\ load_failed = FALSE
    /\ returned = << >>
    /\ tie_order = "stable"
    /\ base_values = NoSeries
    /\ target_values = NoSeries
    /\ growth_rate = NoSeries
    /\ strategy_files \in Folders

\* TomlStrategyLoader.load_active_strategies over the folder
LoaderLoadActiveStrategies ==
    /\ pc = "loader_call"
    /\ active_strategies' = LoadLoop(strategy_files, 1, << >>)
    /\ load_calls' = [load_calls EXCEPT !.strategies = @ + 1]
    /\ pc' = "loader_done"
    /\ UNCHANGED <<financial_data, load_failed, returned, tie_order,
                   base_values, target_values, growth_rate, strategy_files>>

NextLoader == LoaderLoadActiveStrategies

SpecLoader == InitLoader /\ [][NextLoader]_vars

\* the entry is well-formed: readable, a criteria section of type
\* QoQ_Growth with its four fields
Parses(content) ==
    /\ content.readable
    /\ "criteria" \in DOMAIN content.config
    /\ {"type", "metric", "base_quarter", "target_quarter", "min_growth_pct"}
          \subseteq DOMAIN content.config["criteria"]
    /\ content.config["criteria"]["type"] = "QoQ_Growth"

\* the file name without its extension
FileStem(path) == SubSeq(path, 1, Len(path) - 1)

ParsingFiles == { i \in 1..Len(strategy_files) : Parses(strategy_files[i].content) }

\* C12: the loader never fails on a bad entry; the returned mapping holds
\* exactly the entries that parse, each under its file name, also those
\* processed after a bad one.
C12_LoaderKeepsEveryGoodEntry ==
    pc = "loader_done" =>
        /\ DictKeys(active_strategies)
             = { FileStem(strategy_files[i].path) : i \in ParsingFiles }
        /\ Len(active_strategies) = Cardinality(ParsingFiles)
        /\ \A i \in ParsingFiles :
              LET c == Lookup(active_strategies, FileStem(strategy_files[i].path))
                  t == strategy_files[i].content.config["criteria"]
              IN  /\ c.metric = t["metric"]
                  /\ c.base_quarter = t["base_quarter"]
                  /\ c.target_quarter = t["target_quarter"]
                  /\ c.min_growth_pct = t["min_growth_pct"]

----------------------------------------------------------------------------
(* A Ready service with one QoQ criterion whose threshold and growths fall *)
(* between two hundredths of a percent                                     *)

\* (base, target) of one stock: growth 1/3, 1/2, -1/3, 1/200, 1/20000,
\* +inf, NaN
PctRowChoices ==
    { <<I(3), I(4)>>, <<I(2), I(3)>>, <<I(3), I(2)>>, <<I(200), I(201)>>,
      <<I(20000), I(20001)>>, <<I(-1), I(1)>>, <<I(0), I(0)>> }

PctThresholds == {Q(1, 3), Q(3, 10), Q(-1, 3), I(0), Q(1, 20000)}

PctBundles ==
    { [sales |-> Table(SubSeq(StockNames, 1, NumStocks),
                       "2023/1Q", [i \in 1..NumStocks |-> r[i][1]],
                       "2023/2Q", [i \in 1..NumStocks |-> r[i][2]]),
       operating_profit |-> OperatingProfitTable,
       net_income |-> NetIncomeTable] : r \in [1..NumStocks -> PctRowChoices] }

PctBatches ==
    { << [name |-> "s1", criteria |-> QoQCriteria("Sales", "2023/1Q", "2023/2Q", t)] >> :
      t \in PctThresholds }

InitPct ==
    /\ pc = "ready"
    /\ financial_data \in PctBundles
    /\ active_strategies \in PctBatches
    /\ load_calls = [data |-> 1, strategies |-> 1]
    /\ load_failed = FALSE
    /\ returned = << >>
    /\ tie_order \in {"stable", "unstable"}
    /\ base_values = NoSeries
    /\ target_values = NoSeries
    /\ growth_rate = NoSeries
    /\ strategy_files = << >>

NextPct == RunAll

SpecPct == InitPct /\ [][NextPct]_vars

\* the row carries the stock's base and target cells and growth * 100
\* rounded to 2 decimals: a whole number of hundredths within half a
\* hundredth of 100 * (target / base - 1), or +infinity for a base <= 0
RowCarriesFigures(row, criteria, fd) ==
    LET df == MetricMap(fd)[criteria.metric]
        j == CHOOSE j \in 1..Len(df.index) : df.index[j] = row.stock
        b == df.data[criteria.base_quarter][j]
        t == df.data[criteria.target_quarter][j]
        p == row.growth_pct
    IN  /\ row.base = b
        /\ row.target = t
        /\ IF b.k = "num" /\ b.n > 0
           THEN /\ p.k = "num"
                /\ (p.n * 100) % p.d = 0
                /\ LET h == (p.n * 100) \div p.d
                       e == h * b.n - 10000 * (t.n - b.n)
                   IN  2 * Abs(e) <= b.n
           ELSE p = PosInf

\* every row of every returned result satisfies P(row, criterion)
EveryRow(P(_, _)) ==
    \A r \in 1..Len(returned) : \A i \in 1..Len(active_strategies) :
        LET rows == returned[r][i].result.rows
        IN  \A k \in 1..Len(rows) : P(rows[k], active_strategies[i].criteria)

\* growth percentage >= min_growth_fraction * 100
AtLeastThresholdPct(row, criteria) ==
    \/ row.growth_pct = PosInf
    \/ row.growth_pct.n * criteria.min_growth_pct.d
       >= 100 * criteria.min_growth_pct.n * row.growth_pct.d

\* growth percentage >= min_growth_fraction * 100 rounded to 2 decimals
AtLeastRoundedThresholdPct(row, criteria) ==
    PctAtLeast(row.growth_pct, FRound2(FMul100(criteria.min_growth_pct)))

CarriesFigures(row, criteria) == RowCarriesFigures(row, criteria, financial_data)

\* C13 as stated: every row carries base, target and growth * 100 rounded
\* to 2 decimals, and no row has a growth percentage below
\* min_growth_fraction * 100.
C13_NoRowBelowThresholdPct ==
    /\ EveryRow(CarriesFigures)
    /\ EveryRow(AtLeastThresholdPct)

\* C13 amended: every row carries base, target and growth * 100 rounded to
\* 2 decimals, and no row has a growth percentage below
\* min_growth_fraction * 100 rounded to 2 decimals.
C13_NoRowBelowRoundedThresholdPct ==
    /\ EveryRow(CarriesFigures)
    /\ EveryRow(AtLeastRoundedThresholdPct)

C13_Witness ==
    /\ Len(returned) > 0
    /\ active_strategies[1].criteria.min_growth_pct = Q(1, 3)
    /\ Len(returned[1][1].result.rows) >= 2
    /\ \E k \in 1..Len(returned[1][1].result.rows) :
          /\ returned[1][1].result.rows[k].base = I(3)
          /\ returned[1][1].result.rows[k].target = I(4)
          /\ returned[1][1].result.rows[k].growth_pct = Q(3333, 100)

====
